---- MODULE Spec2Model ----
(***************************************************************************)
(* Model of jenkins-build (src/src/main.rs): configuration layering, the   *)
(* job list scan, the per-job pipeline (trigger, two status polls, result  *)
(* poll), the completion channel and the status table renderer.            *)
(*                                                                         *)
(* Strings that the program parses (job file, lines, names) are sequences  *)
(* of one-character strings.  Option<T> is a set: {} is None, {v} Some(v). *)
(* Job j (1-based) is the job of original index idx = j - 1.               *)
(***************************************************************************)
EXTENDS Integers, Sequences, FiniteSets, TLC

VARIABLES
    toml,       \* the configuration file as written (TOML tables)
    content,    \* JOB_FILE_CONTENT, a sequence of characters
    server,     \* what the remote servers may answer in this run
    pc,         \* position of exec/main: "start", "recv", "join", "done", "exit", "panic"
    exitCode,   \* process exit code, -1 while running
    errmsg,     \* what main prints to stderr when exec returns Err
    jobs,       \* Vec<_JenkinsJobConfig> returned by get_all_jobs
    tasks,      \* HashMap job name -> JoinHandle (the task number)
    chan,       \* the mpsc channel: events (idx, name) not yet received
    tpc,        \* per task: "trigger", "queue", "live", "result", "send", "done"
    ti,         \* per task: loop counter i of the poll in progress
    posts,      \* per task: POSTs issued
    gets,       \* per task, per poll: GETs issued
    sleeps,     \* per task, per poll: sleeps taken
    slept,      \* per task, per poll: seconds slept
    ret,        \* per task: what the task's future returned
    hist,       \* per task: answers of {executable.url}api/json so far
    qhist,      \* per task: answers of {location}api/json so far
    cur,        \* the event the renderer took and whose handle it awaits
    p,          \* PrintData: v (slots) and counts
    out,        \* last draw: cursor movement and printed lines
    term,       \* the terminal of stdout: rows, cursor row, rows shown at start
    processed   \* idx of the events the renderer has printed, in order

vars == <<toml, content, server, pc, exitCode, errmsg, jobs, tasks, chan, tpc, ti,
          posts, gets, sleeps, slept, ret, hist, qhist, cur, p, out, term,
          processed>>

(***************************************************************************)
(* Bounds of the model                                                     *)
(***************************************************************************)
\* largest poll_build_result_counts written in a configuration
MaxCounts == 3
\* lines of a job file in the resolution specification
MaxLines == 3
\* undecodable answers a server gives to one status poll when jobs run
\* side by side (a job running alone may get them up to the cap)
MaxBadJson == 1

\* draws of one status table in the renderer specification
MaxDraws == 4

(***************************************************************************)
(* Option and string helpers                                               *)
(***************************************************************************)
None == {}
Some(x) == {x}
Unwrap(o) == CHOOSE x \in o : TRUE

LINE_ENDING == "\n"
WhiteSpace == {" ", "\r", "\t"}

\* str::trim
RECURSIVE trim(_)
trim(s) ==
    IF s = <<>> THEN s
    ELSE IF Head(s) \in WhiteSpace THEN trim(Tail(s))
    ELSE IF s[Len(s)] \in WhiteSpace THEN trim(SubSeq(s, 1, Len(s) - 1))
    ELSE s

\* str::split(LINE_ENDING): "a\n" gives <<"a", "">>, "" gives <<"">>
RECURSIVE split(_)
split(s) ==
    IF \E k \in 1..Len(s) : s[k] = LINE_ENDING
    THEN LET k == CHOOSE k \in 1..Len(s) :
                     /\ s[k] = LINE_ENDING
                     /\ \A m \in 1..(k - 1) : s[m] # LINE_ENDING
         IN  <<SubSeq(s, 1, k - 1)>> \o split(SubSeq(s, k + 1, Len(s)))
    ELSE <<s>>

starts_with(s, c) == Len(s) > 0 /\ s[1] = c
ends_with(s, c) == Len(s) > 0 /\ s[Len(s)] = c

(***************************************************************************)
(* Configuration                                                           *)
(***************************************************************************)
\* #[derive(Deserialize)] JenkinsJobConfig
JenkinsJobConfig(t) ==
    [build |-> t.build,
     poll_build_result_interval_second |-> t.poll_build_result_interval_second,
     poll_build_result_counts |-> t.poll_build_result_counts,
     parameters |-> t.parameters]

\* #[derive(Deserialize)] JenkinsInstanceConfig: name, url, user, password
\* and jobs are the fields; any other key of the table is dropped.
JenkinsInstanceConfig(t) ==
    [name |-> t.name,
     url |-> t.url,
     jobs |-> IF t.jobs = None THEN None
              ELSE Some([n \in DOMAIN Unwrap(t.jobs) |->
                            JenkinsJobConfig(Unwrap(t.jobs)[n])])]

\* #[derive(Deserialize)] Config / JenkinsConfig
Config(t) ==
    [jenkins |->
        [build |-> t.build,
         poll_build_result_interval_second |-> t.poll_build_result_interval_second,
         poll_build_result_counts |-> t.poll_build_result_counts,
         instances |-> [k \in 1..Len(t.instances) |->
                            JenkinsInstanceConfig(t.instances[k])]]]

\* static CONFIG
CONFIG == Config(toml)

\* Result<T>: [ok |-> TRUE, v |-> value] or [ok |-> FALSE, e |-> message]
Ok(x) == [ok |-> TRUE, v |-> x]
Err(m) == [ok |-> FALSE, e |-> m]

\* JenkinsJobConfig::get_build
get_build(self) ==
    IF self.build # None THEN Ok(Unwrap(self.build))
    ELSE IF CONFIG.jenkins.build # None THEN Ok(Unwrap(CONFIG.jenkins.build))
    ELSE Err("Missing job or global build configuration")

\* JenkinsJobConfig::get_poll_build_result_interval_second
get_poll_build_result_interval_second(self) ==
    IF self.poll_build_result_interval_second # None
    THEN Ok(Unwrap(self.poll_build_result_interval_second))
    ELSE IF CONFIG.jenkins.poll_build_result_interval_second # None
    THEN Ok(Unwrap(CONFIG.jenkins.poll_build_result_interval_second))
    ELSE Err("Missing job or global poll_build_result_interval_second configuration")

\* C9 mutant: the global attempt count wins over the job's own
get_poll_build_result_counts_global_first(self) ==
    IF CONFIG.jenkins.poll_build_result_counts # None
    THEN Ok(Unwrap(CONFIG.jenkins.poll_build_result_counts))
    ELSE IF self.poll_build_result_counts # None
    THEN Ok(Unwrap(self.poll_build_result_counts))
    ELSE Err("Missing job or global poll_build_result_counts configuration")

\* JenkinsJobConfig::get_poll_build_result_counts
get_poll_build_result_counts(self) ==
    IF self.poll_build_result_counts # None
    THEN Ok(Unwrap(self.poll_build_result_counts))
    ELSE IF CONFIG.jenkins.poll_build_result_counts # None
    THEN Ok(Unwrap(CONFIG.jenkins.poll_build_result_counts))
    ELSE Err("Missing job or global poll_build_result_counts configuration")

\* _JenkinsJobConfig { ..Default::default() }
DefaultJobConfig(name, instance_name) ==
    [name |-> name,
     instance_name |-> instance_name,
     build |-> "",
     poll_build_result_interval_second |-> 0,
     poll_build_result_counts |-> 0,
     parameters |-> None]

\* _JenkinsJobConfig::set_value_from_initial
set_value_from_initial(self) ==
    IF CONFIG.jenkins.build = None
    THEN Err("Missing job or global build configuration")
    ELSE IF CONFIG.jenkins.poll_build_result_counts = None
    THEN Err("Missing job or global poll_build_result_counts configuration")
    ELSE IF CONFIG.jenkins.poll_build_result_interval_second = None
    THEN Err("Missing job or global poll_build_result_interval_second configuration")
    ELSE Ok([self EXCEPT
                !.build = Unwrap(CONFIG.jenkins.build),
                !.poll_build_result_counts =
                    Unwrap(CONFIG.jenkins.poll_build_result_counts),
                !.poll_build_result_interval_second =
                    Unwrap(CONFIG.jenkins.poll_build_result_interval_second),
                !.parameters = None])

\* _JenkinsJobConfig::set_value_from_another
set_value_from_another(self, obj) ==
    LET b == get_build(obj)
        s == get_poll_build_result_interval_second(obj)
        c == get_poll_build_result_counts(obj)
    IN  IF ~b.ok THEN b
        ELSE IF ~s.ok THEN s
        ELSE IF ~c.ok THEN c
        ELSE Ok([self EXCEPT
                    !.build = b.v,
                    !.poll_build_result_interval_second = s.v,
                    !.poll_build_result_counts = c.v,
                    !.parameters = obj.parameters])

\* the instance the loop of get_job_config ends with: instances[0], replaced
\* by every instance whose name matches (the last match stays)
RECURSIVE find_instance(_, _, _)
find_instance(k, jenkins_instance, jenkins_config) ==
    IF k > Len(CONFIG.jenkins.instances) THEN jenkins_config
    ELSE find_instance(k + 1, jenkins_instance,
            IF CONFIG.jenkins.instances[k].name = jenkins_instance
            THEN CONFIG.jenkins.instances[k] ELSE jenkins_config)

\* get_job_config (called with at least one configured instance)
get_job_config(job, jenkins_instance) ==
    LET jenkins_config ==
            find_instance(1, jenkins_instance, CONFIG.jenkins.instances[1])
        job_config == DefaultJobConfig(job, jenkins_config.name)
    IN  IF jenkins_config.name # jenkins_instance
        THEN Err("No related jenkins configuration")
        ELSE IF jenkins_config.jobs # None
                /\ job \in DOMAIN Unwrap(jenkins_config.jobs)
        THEN set_value_from_another(job_config, Unwrap(jenkins_config.jobs)[job])
        ELSE set_value_from_initial(job_config)

\* C8 mutant: a line that does not resolve ends the scan with the jobs
\* resolved so far
RECURSIVE scan_lines_lenient(_, _, _, _)
scan_lines_lenient(lines, k, jenkins_instance, acc) ==
    IF k > Len(lines) THEN Ok(acc)
    ELSE LET trimmed_line == trim(lines[k])
         IN  IF Len(trimmed_line) = 0
             THEN scan_lines_lenient(lines, k + 1, jenkins_instance, acc)
             ELSE IF starts_with(trimmed_line, "[") /\ ends_with(trimmed_line, "]")
             THEN scan_lines_lenient(lines, k + 1,
                             SubSeq(trimmed_line, 2, Len(trimmed_line) - 1), acc)
             ELSE LET job_config == get_job_config(trimmed_line, jenkins_instance)
                  IN  IF ~job_config.ok THEN Ok(acc)
                      ELSE scan_lines_lenient(lines, k + 1, jenkins_instance,
                                              Append(acc, job_config.v))

\* the loop of get_all_jobs over the lines from line k on
RECURSIVE scan_lines(_, _, _, _)
scan_lines(lines, k, jenkins_instance, acc) ==
    IF k > Len(lines) THEN Ok(acc)
    ELSE LET trimmed_line == trim(lines[k])
         IN  IF Len(trimmed_line) = 0
             THEN scan_lines(lines, k + 1, jenkins_instance, acc)
             ELSE IF starts_with(trimmed_line, "[") /\ ends_with(trimmed_line, "]")
             THEN scan_lines(lines, k + 1,
                             SubSeq(trimmed_line, 2, Len(trimmed_line) - 1), acc)
             ELSE LET job_config == get_job_config(trimmed_line, jenkins_instance)
                  IN  IF ~job_config.ok THEN job_config
                      ELSE scan_lines(lines, k + 1, jenkins_instance,
                                      Append(acc, job_config.v))

\* C10 mutant: the scan starts in the scope of the last configured instance
get_all_jobs_last_instance ==
    IF Len(CONFIG.jenkins.instances) = 0
    THEN [ok |-> FALSE, e |-> "index out of bounds", panic |-> TRUE]
    ELSE scan_lines(split(content), 1,
            CONFIG.jenkins.instances[Len(CONFIG.jenkins.instances)].name, <<>>)

\* get_all_jobs; CONFIG.jenkins.instances[0] panics without instances
get_all_jobs ==
    IF Len(CONFIG.jenkins.instances) = 0
    THEN [ok |-> FALSE, e |-> "index out of bounds", panic |-> TRUE]
    ELSE scan_lines(split(content), 1, CONFIG.jenkins.instances[1].name, <<>>)

(***************************************************************************)
(* Build client: one loop iteration of each poll, given the answer r the   *)
(* server gives if the iteration gets as far as the GET                    *)
(***************************************************************************)
E_POST == "Failed to get to url"
E_LOCATION == "Failed to get Location in header that respond from posting to url"
E_TOSTR == "failed to convert header to a str"
E_FIELD == "Failed to get necessary field on url"
E_GET == "Failed to get url"
E_JSON == "Failed to deserialize json on url"
E_TIMEOUT == "Getting building result timeout on url"
E_PANIC == "task panicked"
E_BUILDER == "builder error"

\* answers to the POST
PostAnswers == {"transport", "nolocation", "opaque", "location"}
\* a transport failure, a body that does not decode, a page that decodes
TRANSPORT == "transport"
BADJSON == "badjson"
PAGE == "page"
\* {"result": null}
NULL == "null"

\* HttpClient::job_build after Url::parse(..).unwrap(): the POST and the
\* Location header
job_build(r) ==
    CASE r = "transport" -> Err(E_POST)
      [] r = "nolocation" -> Err(E_LOCATION)
      [] r = "opaque" -> Err(E_TOSTR)
      [] OTHER -> Ok(r)

\* C18 mutant: a GET that got no answer is retried like an undecodable one
get_job_status_retry_transport(i, r) ==
    IF i = 30 THEN [done |-> TRUE, io |-> FALSE, res |-> Err(E_FIELD)]
    ELSE IF r \notin {TRANSPORT, BADJSON} THEN [done |-> TRUE, io |-> TRUE, res |-> Ok(r)]
    ELSE [done |-> FALSE, io |-> TRUE, next |-> i + 1]

\* C12 mutant: the cap is tested against 31
get_job_status_cap_31(i, r) ==
    IF i = 31 THEN [done |-> TRUE, io |-> FALSE, res |-> Err(E_FIELD)]
    ELSE IF r = TRANSPORT THEN [done |-> TRUE, io |-> TRUE, res |-> Err(E_GET)]
    ELSE IF r # BADJSON THEN [done |-> TRUE, io |-> TRUE, res |-> Ok(r)]
    ELSE [done |-> FALSE, io |-> TRUE, next |-> i + 1]

\* HttpClient::get_job_status, one pass of the loop with counter i.
\* io: the pass slept and issued its GET; next: the counter if the loop goes on
get_job_status(i, r) ==
    IF i = 30
    THEN [done |-> TRUE, io |-> FALSE, res |-> Err(E_FIELD)]
    ELSE IF r = TRANSPORT
    THEN [done |-> TRUE, io |-> TRUE, res |-> Err(E_GET)]
    ELSE IF r # BADJSON
    THEN [done |-> TRUE, io |-> TRUE, res |-> Ok(r)]
    ELSE [done |-> FALSE, io |-> TRUE, next |-> i + 1]

\* C6 mutant: the attempt cap is tested one pass too late
get_job_result_late(i, r, job_config) ==
    IF i = job_config.poll_build_result_counts + 1
    THEN [done |-> TRUE, io |-> FALSE, res |-> Err(E_TIMEOUT)]
    ELSE IF r = TRANSPORT
    THEN [done |-> TRUE, io |-> TRUE, res |-> Err(E_GET)]
    ELSE IF r = BADJSON
    THEN [done |-> TRUE, io |-> TRUE, res |-> Err(E_JSON)]
    ELSE IF r # NULL
    THEN [done |-> TRUE, io |-> TRUE, res |-> Ok(r)]
    ELSE [done |-> FALSE, io |-> TRUE, next |-> i + 1]

\* C7 mutant: any decoded page ends the poll, a null result included
get_job_result_any(i, r, job_config) ==
    IF i = job_config.poll_build_result_counts
    THEN [done |-> TRUE, io |-> FALSE, res |-> Err(E_TIMEOUT)]
    ELSE IF r = TRANSPORT
    THEN [done |-> TRUE, io |-> TRUE, res |-> Err(E_GET)]
    ELSE IF r = BADJSON
    THEN [done |-> TRUE, io |-> TRUE, res |-> Err(E_JSON)]
    ELSE [done |-> TRUE, io |-> TRUE, res |-> Ok(r)]

\* HttpClient::get_job_result, one pass of the loop with counter i
get_job_result(i, r, job_config) ==
    IF i = job_config.poll_build_result_counts
    THEN [done |-> TRUE, io |-> FALSE, res |-> Err(E_TIMEOUT)]
    ELSE IF r = TRANSPORT
    THEN [done |-> TRUE, io |-> TRUE, res |-> Err(E_GET)]
    ELSE IF r = BADJSON
    THEN [done |-> TRUE, io |-> TRUE, res |-> Err(E_JSON)]
    ELSE IF r # NULL
    THEN [done |-> TRUE, io |-> TRUE, res |-> Ok(r)]
    ELSE [done |-> FALSE, io |-> TRUE, next |-> i + 1]

(***************************************************************************)
(* Progress renderer                                                       *)
(***************************************************************************)
\* the text of the pending placeholder
PENDING == "pending"

\* PrintData::new
PrintData_new(js) == [v |-> [k \in 1..Len(js) |-> ""], counts |-> 0]

\* C4 mutant: the lines are built from the last slot to the first
print_content_reversed(v, js) ==
    [k \in 1..Len(v) |->
        [name |-> js[Len(v) + 1 - k].name,
         status |-> IF v[Len(v) + 1 - k] = "" THEN PENDING ELSE v[Len(v) + 1 - k]]]

\* the lines PrintData::print builds: "{name} -> {value or placeholder}"
print_content(v, js) ==
    [k \in 1..Len(v) |->
        [name |-> js[k].name,
         status |-> IF v[k] = "" THEN PENDING ELSE v[k]]]

\* C13 mutant: the text of the earlier draws is printed again with each draw
PrintData_print_accumulating(self, js, idx, result) ==
    IF idx + 1 > Len(self.v)
    THEN [panic |-> TRUE]
    ELSE LET v2 == [self.v EXCEPT ![idx + 1] = result]
             c == print_content(v2, js)
         IN  [panic |-> FALSE,
              p |-> [v |-> v2, counts |-> self.counts + 1],
              out |-> [up |-> IF self.counts > 0 THEN Len(v2) ELSE 0,
                       lines |-> [k \in 1..(Len(v2) * (self.counts + 1)) |->
                                    c[((k - 1) % Len(v2)) + 1]]]]

\* C16 mutant: the first draw moves the cursor up as well
PrintData_print_always_up(self, js, idx, result) ==
    IF idx + 1 > Len(self.v)
    THEN [panic |-> TRUE]
    ELSE LET v2 == [self.v EXCEPT ![idx + 1] = result]
         IN  [panic |-> FALSE,
              p |-> [v |-> v2, counts |-> self.counts + 1],
              out |-> [up |-> Len(v2), lines |-> print_content(v2, js)]]

\* PrintData::print; self.v[idx] panics when idx is out of range
PrintData_print(self, js, idx, result) ==
    IF idx + 1 > Len(self.v)
    THEN [panic |-> TRUE]
    ELSE LET v2 == [self.v EXCEPT ![idx + 1] = result]
         IN  [panic |-> FALSE,
              p |-> [v |-> v2, counts |-> self.counts + 1],
              out |-> [up |-> IF self.counts > 0 THEN Len(v2) ELSE 0,
                       lines |-> print_content(v2, js)]]

\* the terminal at start: rows already shown, the cursor below them
term_start(rows) == [rows |-> rows, row |-> Len(rows) + 1, above |-> rows]

\* what one draw does to the terminal: execute!(stdout, MoveUp(up), ..) moves
\* the cursor up (never past the first row), print!("{content}") writes
\* each line on the cursor's row and moves the cursor to the next row
term_write(t, d) ==
    LET top == IF t.row - d.up < 1 THEN 1 ELSE t.row - d.up
        n == Len(d.lines)
        last == IF Len(t.rows) > top + n - 1 THEN Len(t.rows) ELSE top + n - 1
    IN  [rows |-> [k \in 1..last |->
                    IF k >= top /\ k < top + n THEN d.lines[k - top + 1]
                    ELSE t.rows[k]],
         row |-> top + n,
         above |-> t.above]

(***************************************************************************)
(* exec: start-up                                                          *)
(***************************************************************************)
\* the spawn loop's tasks.insert(i.name, handle): a later job of the same
\* name replaces the handle stored before
RECURSIVE insert_tasks(_, _, _)
insert_tasks(js, k, map) ==
    IF k > Len(js) THEN map
    ELSE insert_tasks(js, k + 1,
            [n \in DOMAIN map \cup {js[k].name} |->
                IF n = js[k].name THEN k ELSE map[n]])

NoCounts == [queue |-> 0, live |-> 0, result |-> 0]
NoEvent == [idx |-> -1, h |-> 0]
NoRet == [ok |-> FALSE, e |-> "running"]

Halt(code, how, msg) ==
    /\ pc' = how
    /\ exitCode' = code
    /\ errmsg' = msg
    /\ UNCHANGED <<jobs, tasks, chan, tpc, ti, posts, gets, sleeps, slept,
                   ret, hist, qhist, cur, p, out, term, processed>>

\* exec up to the first draw: CONFIG.validate (always Ok),
\* get_jenkins_clients, get_all_jobs, the channel, the spawn loop, drop(tx),
\* PrintData::new and p.print(0, String::new())
ExecStart ==
    /\ pc = "start"
    /\ UNCHANGED <<toml, content, server>>
    /\ \E clients_ok \in BOOLEAN :
        LET r == get_all_jobs
            n == Len(r.v)
            first == PrintData_print(PrintData_new(r.v), r.v, 0, "")
        IN  IF ~clients_ok THEN Halt(1, "exit", E_BUILDER)
            ELSE IF ~r.ok
            THEN IF "panic" \in DOMAIN r THEN Halt(101, "panic", r.e)
                 ELSE Halt(1, "exit", r.e)
            ELSE IF n = 0
            THEN \* mpsc::channel(0) panics
                 Halt(101, "panic", "mpsc bounded channel requires buffer > 0")
            ELSE /\ jobs' = r.v
                 /\ tasks' = insert_tasks(r.v, 1, <<>>)
                 /\ chan' = <<>>
                 /\ tpc' = [j \in 1..n |-> "trigger"]
                 /\ ti' = [j \in 1..n |-> 0]
                 /\ posts' = [j \in 1..n |-> 0]
                 /\ gets' = [j \in 1..n |-> NoCounts]
                 /\ sleeps' = [j \in 1..n |-> NoCounts]
                 /\ slept' = [j \in 1..n |-> NoCounts]
                 /\ ret' = [j \in 1..n |-> NoRet]
                 /\ hist' = [j \in 1..n |-> <<>>]
                 /\ qhist' = [j \in 1..n |-> <<>>]
                 /\ cur' = NoEvent
                 /\ p' = first.p
                 /\ out' = first.out
                 /\ term' = term_write(term, first.out)
                 /\ processed' = <<>>
                 /\ pc' = "recv"
                 /\ exitCode' = -1
                 /\ errmsg' = ""

(***************************************************************************)
(* exec: the spawned task of job j                                         *)
(***************************************************************************)
Running == pc \in {"recv", "join"}

\* get_jenkins_clients: instance name -> the instance its client talks to
\* (map.insert: the last instance of a name stays)
get_jenkins_clients ==
    LET inst == CONFIG.jenkins.instances
    IN  [n \in {inst[k].name : k \in 1..Len(inst)} |->
            inst[CHOOSE k \in 1..Len(inst) :
                    /\ inst[k].name = n
                    /\ \A m \in (k + 1)..Len(inst) : inst[m].name # n]]

\* Url::parse(&self.jenkins.url) succeeds
url_parses(url) == url = "ok"

\* C5 mutant: a returning task takes every other task down with it
task_return_abort_all(j) == [k \in DOMAIN tpc |-> "done"]

\* C14 mutant: a returning task starts over at its trigger
task_return_restart(j) == [tpc EXCEPT ![j] = "trigger"]

\* the spawned future returns: the task is finished, nothing else changes
task_return(j) == [tpc EXCEPT ![j] = "done"]

TaskFrame == UNCHANGED <<toml, content, server, pc, exitCode, errmsg, jobs, tasks,
                         cur, p, out, term, processed>>

Bump(f, j, poll, n) == [f EXCEPT ![j][poll] = @ + n]

\* client.job_build(i).await?
Trigger(j) ==
    /\ Running
    /\ tpc[j] = "trigger"
    /\ TaskFrame
    /\ UNCHANGED <<chan, ti, gets, sleeps, slept, hist, qhist>>
    /\ LET client == get_jenkins_clients[jobs[j].instance_name]
       IN  IF ~url_parses(client.url)
           THEN /\ tpc' = task_return(j)
                /\ ret' = [ret EXCEPT ![j] = [ok |-> FALSE, e |-> E_PANIC, panic |-> TRUE]]
                /\ posts' = posts
           ELSE \E r \in server.post :
                    LET res == job_build(r)
                    IN  /\ posts' = [posts EXCEPT ![j] = @ + 1]
                        /\ IF res.ok
                           THEN /\ tpc' = [tpc EXCEPT ![j] = "queue"]
                                /\ ret' = ret
                           ELSE /\ tpc' = task_return(j)
                                /\ ret' = [ret EXCEPT ![j] = res]

\* what a status poll does to the counters of job j
StatusIo(j, poll, step) ==
    IF step.io
    THEN /\ gets' = Bump(gets, j, poll, 1)
         /\ sleeps' = Bump(sleeps, j, poll, 1)
         /\ slept' = Bump(slept, j, poll, 3)
    ELSE UNCHANGED <<gets, sleeps, slept>>

\* the answers a status poll may get at counter i
StatusAnswers(i, pages) ==
    {TRANSPORT} \cup pages \cup (IF i < server.maxBad THEN {BADJSON} ELSE {})

\* client.get_job_status::<JenkinsExecPage>(&(location + "api/json")).await?
PollQueue(j) ==
    /\ Running
    /\ tpc[j] = "queue"
    /\ TaskFrame
    /\ UNCHANGED <<chan, posts, hist>>
    /\ \E r \in StatusAnswers(ti[j], {PAGE}) :
        LET step == get_job_status(ti[j], r)
        IN  /\ StatusIo(j, "queue", step)
            /\ qhist' = IF step.io THEN [qhist EXCEPT ![j] = Append(@, r)] ELSE qhist
            /\ IF ~step.done
               THEN /\ ti' = [ti EXCEPT ![j] = step.next]
                    /\ UNCHANGED <<tpc, ret>>
               ELSE IF step.res.ok
               THEN /\ tpc' = [tpc EXCEPT ![j] = "live"]
                    /\ ti' = [ti EXCEPT ![j] = 0]
                    /\ ret' = ret
               ELSE /\ tpc' = task_return(j)
                    /\ ret' = [ret EXCEPT ![j] = step.res]
                    /\ ti' = ti

\* client.get_job_status::<JenkinsResult>(&url).await?
\* the decoded page ({"result": null or a string}) is dropped
PollLive(j) ==
    /\ Running
    /\ tpc[j] = "live"
    /\ TaskFrame
    /\ UNCHANGED <<chan, posts, qhist>>
    /\ \E r \in StatusAnswers(ti[j], {NULL} \cup server.results) :
        LET step == get_job_status(ti[j], r)
        IN  /\ StatusIo(j, "live", step)
            /\ hist' = IF step.io THEN [hist EXCEPT ![j] = Append(@, r)] ELSE hist
            /\ IF ~step.done
               THEN /\ ti' = [ti EXCEPT ![j] = step.next]
                    /\ UNCHANGED <<tpc, ret>>
               ELSE IF step.res.ok
               THEN /\ tpc' = [tpc EXCEPT ![j] = "result"]
                    /\ ti' = [ti EXCEPT ![j] = 0]
                    /\ ret' = ret
               ELSE /\ tpc' = task_return(j)
                    /\ ret' = [ret EXCEPT ![j] = step.res]
                    /\ ti' = ti

\* client.get_job_result(&url, i).await?
PollResult(j) ==
    /\ Running
    /\ tpc[j] = "result"
    /\ TaskFrame
    /\ UNCHANGED <<chan, posts, qhist>>
    /\ \E r \in {TRANSPORT, BADJSON, NULL} \cup server.results :
        LET step == get_job_result(ti[j], r, jobs[j])
            s == jobs[j].poll_build_result_interval_second
        IN  /\ IF step.io
               THEN /\ gets' = Bump(gets, j, "result", 1)
                    /\ sleeps' = Bump(sleeps, j, "result", 1)
                    /\ slept' = Bump(slept, j, "result", s)
                    /\ hist' = [hist EXCEPT ![j] = Append(@, r)]
               ELSE UNCHANGED <<gets, sleeps, slept, hist>>
            /\ IF ~step.done
               THEN /\ ti' = [ti EXCEPT ![j] = step.next]
                    /\ UNCHANGED <<tpc, ret>>
               ELSE IF step.res.ok
               THEN /\ tpc' = [tpc EXCEPT ![j] = "send"]
                    /\ ret' = [ret EXCEPT ![j] = step.res]
                    /\ ti' = ti
               ELSE /\ tpc' = task_return(j)
                    /\ ret' = [ret EXCEPT ![j] = step.res]
                    /\ ti' = ti

\* C20 mutant: a channel of one slot
capacity_one(js) == 1

\* mpsc::channel(jobs.len()): the capacity of the completion channel
capacity(js) == Len(js)

\* tx.send((idx, i.name)).await?; Ok(result): the channel holds at most
\* jobs.len() events, a full channel makes the sender wait
Send(j) ==
    /\ Running
    /\ tpc[j] = "send"
    /\ Len(chan) < capacity(jobs)
    /\ TaskFrame
    /\ UNCHANGED <<ti, posts, gets, sleeps, slept, ret, hist, qhist>>
    /\ chan' = Append(chan, [idx |-> j - 1, key |-> jobs[j].name])
    /\ tpc' = task_return(j)

(***************************************************************************)
(* exec: the renderer loop                                                 *)
(***************************************************************************)
RenderFrame == UNCHANGED <<toml, content, server, jobs, tpc, ti, posts, gets,
                           sleeps, slept, ret, hist, qhist>>

\* e.to_string() of the task's error, or the result string
outcome_string(r) == IF r.ok THEN r.v ELSE r.e

\* every sender is dropped: each task's tx clone lives as long as its future
Closed == \A j \in DOMAIN tpc : tpc[j] = "done"

\* rx.recv().await yields an event; tasks.remove(&key).unwrap()
Recv ==
    /\ pc = "recv"
    /\ chan # <<>>
    /\ RenderFrame
    /\ chan' = Tail(chan)
    /\ UNCHANGED <<p, out, term, processed>>
    /\ LET e == Head(chan)
       IN  IF e.key \notin DOMAIN tasks
           THEN /\ pc' = "panic"
                /\ exitCode' = 101
                /\ errmsg' = "called Option::unwrap() on a None value"
                /\ UNCHANGED <<tasks, cur>>
           ELSE /\ pc' = "join"
                /\ cur' = [idx |-> e.idx, h |-> tasks[e.key]]
                /\ tasks' = [n \in DOMAIN tasks \ {e.key} |-> tasks[n]]
                /\ UNCHANGED <<exitCode, errmsg>>

\* the awaited JoinHandle is ready: p.print(idx, ..) in each arm of the match
Join ==
    /\ pc = "join"
    /\ tpc[cur.h] = "done"
    /\ RenderFrame
    /\ UNCHANGED <<chan, tasks>>
    /\ LET d == PrintData_print(p, jobs, cur.idx, outcome_string(ret[cur.h]))
       IN  IF d.panic
           THEN /\ pc' = "panic"
                /\ exitCode' = 101
                /\ errmsg' = "index out of bounds"
                /\ UNCHANGED <<cur, p, out, term, processed>>
           ELSE /\ pc' = "recv"
                /\ p' = d.p
                /\ out' = d.out
                /\ term' = term_write(term, d.out)
                /\ processed' = Append(processed, cur.idx)
                /\ cur' = NoEvent
                /\ UNCHANGED <<exitCode, errmsg>>

\* rx.recv().await yields None: the loop ends, exec returns Ok, main returns
RecvClosed ==
    /\ pc = "recv"
    /\ chan = <<>>
    /\ Closed
    /\ RenderFrame
    /\ UNCHANGED <<chan, tasks, cur, p, out, term, processed>>
    /\ pc' = "done"
    /\ exitCode' = 0
    /\ errmsg' = errmsg

(***************************************************************************)
(* Inputs: configurations, job files, server behaviour                     *)
(***************************************************************************)
\* one layer of the three settings as written in the configuration file
Layer(b, s, c) ==
    [build |-> b, poll_build_result_interval_second |-> s,
     poll_build_result_counts |-> c]

JobT(layer, params) ==
    [build |-> layer.build,
     poll_build_result_interval_second |-> layer.poll_build_result_interval_second,
     poll_build_result_counts |-> layer.poll_build_result_counts,
     parameters |-> params]

\* an instance table; layer holds keys written at instance level
InstT(name, url, layer, js) ==
    [name |-> name, url |-> url,
     build |-> layer.build,
     poll_build_result_interval_second |-> layer.poll_build_result_interval_second,
     poll_build_result_counts |-> layer.poll_build_result_counts,
     jobs |-> js]

TomlT(layer, insts) ==
    [build |-> layer.build,
     poll_build_result_interval_second |-> layer.poll_build_result_interval_second,
     poll_build_result_counts |-> layer.poll_build_result_counts,
     instances |-> insts]

NoLayer == Layer(None, None, None)
GlobalLayer == Layer(Some("build"), Some(1), Some(2))

job_a == <<"a">>
job_b == <<"b">>
inst_d == <<"d">>
inst_s == <<"s">>
inst_u == <<"u">>
NL == LINE_ENDING

\* instance s overrides job a: interval 2, a single attempt, form parameters
OverrideA == [n \in {job_a} |-> JobT(Layer(None, Some(2), Some(1)), Some("form"))]
FullOverrideA == [n \in {job_a} |-> JobT(Layer(Some("buildWithParameters"), Some(2), Some(1)), None)]

TomlDefault ==
    TomlT(GlobalLayer,
          <<InstT(inst_d, "ok", NoLayer, None),
            InstT(inst_s, "ok", NoLayer, Some(OverrideA)),
            InstT(inst_u, "not a url", NoLayer, None)>>)

\* no global attempt count; only job a of instance s resolves
TomlNoCounts ==
    TomlT(Layer(Some("build"), Some(1), None),
          <<InstT(inst_d, "ok", NoLayer, None),
            InstT(inst_s, "ok", NoLayer, Some(FullOverrideA))>>)

\* one long poll: MaxCounts attempts, 2 seconds apart
TomlDeep ==
    TomlT(Layer(Some("build"), Some(2), Some(MaxCounts)),
          <<InstT(inst_d, "ok", NoLayer, None)>>)

ResultStrings == {"SUCCESS", "FAILURE", ""}

\* servers answering jobs that run side by side
ServerShort == [post |-> PostAnswers, maxBad |-> MaxBadJson,
                results |-> {"SUCCESS", "FAILURE"}]
\* the server of the runs with jobs of one name: a trigger answer with or
\* without the Location header, pages that always decode
ServerTiny == [post |-> {"location", "nolocation"}, maxBad |-> 0,
               results |-> {"SUCCESS"}]
\* a server that may keep a status poll undecodable up to its cap
ServerDeep == [post |-> {"location"}, maxBad |-> 30, results |-> ResultStrings]

Scenarios ==
    { \* build-a, [staging], build-b
      [toml |-> TomlDefault, server |-> ServerShort,
       content |-> <<"a", NL, "[", "s", "]", NL, "b", NL>>],
      \* the same job name on two instances
      [toml |-> TomlDefault, server |-> ServerTiny,
       content |-> <<"a", NL, "[", "s", "]", NL, "a">>],
      \* a marker naming no configured instance, after a good line
      [toml |-> TomlDefault, server |-> ServerShort,
       content |-> <<"a", NL, "[", "x", "]", NL, "b">>],
      \* a line that resolves, then one with no attempt count at any layer
      [toml |-> TomlNoCounts, server |-> ServerShort,
       content |-> <<"[", "s", "]", NL, "a", NL, "[", "d", "]", NL, "b">>],
      \* nothing but a marker and blank lines
      [toml |-> TomlDefault, server |-> ServerShort,
       content |-> <<"[", "s", "]", NL, " ", NL>>],
      \* an instance whose url does not parse
      [toml |-> TomlDefault, server |-> ServerShort,
       content |-> <<"[", "u", "]", NL, "a">>],
      \* three jobs, two of them of the same name on the same instance
      [toml |-> TomlDefault, server |-> ServerTiny,
       content |-> <<"a", NL, "a", NL, "b">>],
      \* one job polled to the caps
      [toml |-> TomlDeep, server |-> ServerDeep,
       content |-> <<"a", NL>>] }

\* the shell's line that started the program is the only row shown
InitRun ==
    /\ term = term_start(<<"$ jenkins-build">>)
    /\ pc = "start"
    /\ exitCode = -1
    /\ errmsg = ""
    /\ jobs = <<>>
    /\ tasks = <<>>
    /\ chan = <<>>
    /\ tpc = <<>>
    /\ ti = <<>>
    /\ posts = <<>>
    /\ gets = <<>>
    /\ sleeps = <<>>
    /\ slept = <<>>
    /\ ret = <<>>
    /\ hist = <<>>
    /\ qhist = <<>>
    /\ cur = NoEvent
    /\ p = [v |-> <<>>, counts |-> 0]
    /\ out = [up |-> 0, lines |-> <<>>]
    /\ processed = <<>>

Init ==
    /\ \E sc \in Scenarios :
        /\ toml = sc.toml
        /\ content = sc.content
        /\ server = sc.server
    /\ InitRun

Next ==
    \/ ExecStart
    \/ \E j \in DOMAIN tpc : Trigger(j)
    \/ \E j \in DOMAIN tpc : PollQueue(j)
    \/ \E j \in DOMAIN tpc : PollLive(j)
    \/ \E j \in DOMAIN tpc : PollResult(j)
    \/ \E j \in DOMAIN tpc : Send(j)
    \/ Recv
    \/ Join
    \/ RecvClosed

Spec == Init /\ [][Next]_vars

TypeOK ==
    /\ pc \in {"start", "recv", "join", "done", "exit", "panic"}
    /\ exitCode \in {-1, 0, 1, 101}
    /\ \A j \in DOMAIN tpc :
        tpc[j] \in {"trigger", "queue", "live", "result", "send", "done"}

(***************************************************************************)
(* Resolution on its own: configurations and job files drawn from sets,    *)
(* exec run up to the point where the jobs are spawned                     *)
(***************************************************************************)
Options(x) == {None, Some(x)}

\* every way of writing or leaving out the three settings at one layer
Layers(b, s, c) ==
    {Layer(ob, os, oc) : ob \in Options(b), os \in Options(s), oc \in Options(c)}

JobLayers == Layers("job-build", 1, 1)
InstLayers == Layers("instance-build", 2, 2)
GlobalLayers == Layers("build", 3, MaxCounts)

\* instance d with settings written at each of the three layers
LayeredTomls ==
    {TomlT(g, <<InstT(inst_d, "ok", il, js), InstT(inst_s, "ok", NoLayer, None)>>) :
        g \in GlobalLayers, il \in InstLayers,
        js \in {None} \cup {Some([n \in {job_a} |-> JobT(jl, None)]) : jl \in JobLayers}}

TomlNoInstances == TomlT(GlobalLayer, <<>>)

LineSet ==
    { <<>>, <<" ">>, <<"a">>, <<" ", "b", "\r">>,
      <<"[", "s", "]">>, <<"[", "x", "]">>, <<" ", "[", "d", "]">> }

RECURSIVE JoinLines(_)
JoinLines(ls) ==
    IF ls = <<>> THEN <<>>
    ELSE IF Len(ls) = 1 THEN ls[1]
    ELSE ls[1] \o <<NL>> \o JoinLines(Tail(ls))

Files ==
    LET lists == UNION {[1..n -> LineSet] : n \in 0..MaxLines}
    IN  {JoinLines(ls) : ls \in lists} \cup {JoinLines(ls) \o <<NL>> : ls \in lists}

InitResolve ==
    /\ \/ /\ toml \in LayeredTomls
          /\ content \in {<<"a">>, <<"a", NL, "[", "s", "]", NL, "b", NL>>}
       \/ /\ toml \in {TomlDefault, TomlNoInstances}
          /\ content \in Files
    /\ server = ServerShort
    /\ InitRun

NextResolve == ExecStart

SpecResolve == InitResolve /\ [][NextResolve]_vars

(***************************************************************************)
(* The job list and the layers as the documentation describes them         *)
(***************************************************************************)
\* the lines of the file, each one trimmed
FileLines == LET raw == split(content) IN [k \in 1..Len(raw) |-> trim(raw[k])]
IsBlankLine(L, k) == L[k] = <<>>
IsMarkerLine(L, k) == Len(L[k]) >= 2 /\ L[k][1] = "[" /\ L[k][Len(L[k])] = "]"
MarkerName(L, k) == [m \in 1..(Len(L[k]) - 2) |-> L[k][m + 1]]
\* the numbers of the lines that name a job
JobLineIdx(L) == {k \in 1..Len(L) : ~IsBlankLine(L, k) /\ ~IsMarkerLine(L, k)}
\* the line number of the n-th job line, J the job line numbers
NthJobLine(J, n) == CHOOSE k \in J : Cardinality({m \in J : m <= k}) = n
\* the instance in scope at line k
InScope(L, k) ==
    LET before == {m \in 1..(k - 1) : IsMarkerLine(L, m)}
    IN  IF before = {} THEN toml.instances[1].name
        ELSE MarkerName(L, CHOOSE m \in before : \A m2 \in before : m2 <= m)
InstanceNames == {toml.instances[k].name : k \in 1..Len(toml.instances)}
\* the table of instance n as written in the file
InstanceTable(n) ==
    toml.instances[CHOOSE k \in 1..Len(toml.instances) :
        /\ toml.instances[k].name = n
        /\ \A m \in (k + 1)..Len(toml.instances) : toml.instances[m].name # n]
Fields == {"build", "poll_build_result_interval_second", "poll_build_result_counts"}
\* field f of job n of instance i at the job layer, as an Option
AtJob(i, n, f) ==
    LET t == InstanceTable(i)
    IN  IF t.jobs # None /\ n \in DOMAIN Unwrap(t.jobs) THEN Unwrap(t.jobs)[n][f]
        ELSE None
AtInstance(i, f) == InstanceTable(i)[f]
AtGlobal(f) == toml[f]
\* job > instance > global
ThreeLayers(i, n, f) ==
    IF AtJob(i, n, f) # None THEN AtJob(i, n, f)
    ELSE IF AtInstance(i, f) # None THEN AtInstance(i, f)
    ELSE AtGlobal(f)
\* job > global
TwoLayers(i, n, f) ==
    IF AtJob(i, n, f) # None THEN AtJob(i, n, f) ELSE AtGlobal(f)

N == Len(jobs)
Failed(j) == tpc[j] = "done" /\ ~ret[j].ok
Requests(j) == posts[j] + gets[j].queue + gets[j].live + gets[j].result

(***************************************************************************)
(* Claims                                                                  *)
(***************************************************************************)

\* C1: when the run has ended, the slot of every job that failed (at the
\* trigger, the queued-item poll, the liveness poll or the result poll)
\* shows the job's failure description and not the pending placeholder.
C1_FailureShown ==
    pc = "done" =>
        \A j \in DOMAIN tpc :
            Failed(j) =>
                /\ p.v[j] = outcome_string(ret[j])
                /\ out.lines[j].status # PENDING

\* C2: when the renderer loop has ended it has processed exactly one
\* completion event per job: N events, one for each original index.
C2_OneEventPerJob ==
    pc = "done" =>
        /\ Len(processed) = N
        /\ \A j \in 1..N :
            Cardinality({k \in 1..Len(processed) : processed[k] = j - 1}) = 1

\* C3: the outcome written into slot idx for a processed event is the outcome
\* of the job of original index idx, also when two jobs have the same name.
C3_SlotShowsOwnJob ==
    \A k \in 1..Len(processed) :
        p.v[processed[k] + 1] = outcome_string(ret[processed[k] + 1])

\* C4: every draw of the status table has exactly N lines and line k names
\* the k-th job of the input job list, whatever the completion order.
C4_DrawHasNLinesInInputOrder ==
    p.counts > 0 =>
        LET L == FileLines
            J == JobLineIdx(L)
        IN  /\ Len(out.lines) = N
            /\ N = Cardinality(J)
            /\ \A k \in 1..N : out.lines[k].name = L[NthJobLine(J, k)]

\* C4 witness: two jobs of different names finished in the reverse of the
\* input order and the final table was drawn.
C4_Witness ==
    /\ pc = "done"
    /\ N = 2
    /\ jobs[1].name # jobs[2].name
    /\ processed = <<1, 0>>
    /\ p.counts = 3

\* the state of task k that the task itself owns
TaskState(k) ==
    <<tpc[k], ti[k], posts[k], gets[k], sleeps[k], slept[k], ret[k], hist[k], qhist[k]>>
TaskStep(k) == Trigger(k) \/ PollQueue(k) \/ PollLive(k) \/ PollResult(k) \/ Send(k)

\* C5: a job that failed issues no further request; the step in which a job
\* fails changes nothing of any sibling, and while the process runs every
\* unfinished sibling can take its next step whatever the others did.
C5_FailureIsLocal ==
    /\ [][\A j \in DOMAIN tpc :
            /\ Failed(j) => Requests(j)' = Requests(j)
            /\ (~Failed(j) /\ Failed(j)') =>
                   \A k \in DOMAIN tpc \ {j} : TaskState(k)' = TaskState(k)]_vars
    /\ [](\A k \in DOMAIN tpc :
            (Running /\ tpc[k] # "done") => ENABLED TaskStep(k))

\* C5 witness: the trigger of one job got no Location header, that job made
\* no request after its POST, and a sibling went through all its polls to a
\* result that the table shows.
C5_Witness ==
    \E j, k \in DOMAIN tpc :
        /\ j # k
        /\ Failed(j) /\ ret[j].e = E_LOCATION
        /\ Requests(j) = 1
        /\ tpc[k] = "done" /\ ret[k].ok
        /\ gets[k].result > 0
        /\ pc = "done"

\* the answers the result poll of job j got: hist without the liveness poll's
ResultAnswers(j) == SubSeq(hist[j], gets[j].live + 1, Len(hist[j]))
\* the liveness poll of job j returned Ok, so the result poll was entered
EnteredResultPoll(j) ==
    /\ gets[j].live >= 1
    /\ hist[j][gets[j].live] \notin {TRANSPORT, BADJSON}
\* a result string, as opposed to null, an undecodable body or no answer
IsResultString(r) == r \notin {NULL, TRANSPORT, BADJSON}

\* C6: the result poll never issues more than c GETs or sleeps; against
\* answers that are all null it ends only by the timeout, after exactly c
\* GETs and c sleeps of s seconds; and the timeout never comes earlier.
C6_ResultPollTimeout ==
    \A j \in DOMAIN tpc :
        LET c == jobs[j].poll_build_result_counts
            s == jobs[j].poll_build_result_interval_second
            R == ResultAnswers(j)
            timedOut == tpc[j] = "done" /\ ~ret[j].ok /\ ret[j].e = E_TIMEOUT
            exact == /\ gets[j].result = c
                     /\ sleeps[j].result = c
                     /\ slept[j].result = c * s
        IN  /\ gets[j].result <= c
            /\ sleeps[j].result <= c
            /\ (EnteredResultPoll(j) /\ \A k \in 1..Len(R) : R[k] = NULL) =>
                   /\ tpc[j] \in {"result", "done"}
                   /\ tpc[j] = "done" => (timedOut /\ exact)
            /\ timedOut => (exact /\ \A k \in 1..Len(R) : R[k] = NULL)

\* C6 witness: a result poll of at least two attempts, two seconds apart,
\* timed out.
C6_Witness ==
    \E j \in DOMAIN tpc :
        /\ tpc[j] = "done" /\ ~ret[j].ok /\ ret[j].e = E_TIMEOUT
        /\ jobs[j].poll_build_result_counts >= 2
        /\ jobs[j].poll_build_result_interval_second = 2
        /\ gets[j].result = jobs[j].poll_build_result_counts
        /\ slept[j].result = 2 * jobs[j].poll_build_result_counts

\* the scenario of C7 for job j: {executable.url}api/json answers null, null,
\* SUCCESS, the job has at least 3 attempts: the job goes on to the third
\* GET, its outcome is SUCCESS and it issues no fourth GET
NullNullSuccess(j) ==
    jobs[j].poll_build_result_counts >= 3 =>
        /\ hist[j] \in {<<NULL>>, <<NULL, NULL>>} => tpc[j] \in {"live", "result"}
        /\ hist[j] = <<NULL, NULL, "SUCCESS">> =>
               /\ tpc[j] \in {"send", "done"}
               /\ ret[j] = Ok("SUCCESS")
               /\ gets[j].live + gets[j].result = 3
        /\ (Len(hist[j]) > 3 => SubSeq(hist[j], 1, 3) # <<NULL, NULL, "SUCCESS">>)

\* C7 as stated: the scenario, and in general the outcome of a job is the
\* first result string that {executable.url}api/json returned to the job and
\* no GET follows it.
C7_FirstResultOfEndpoint ==
    \A j \in DOMAIN tpc :
        /\ NullNullSuccess(j)
        /\ \A k \in 1..Len(hist[j]) :
            IsResultString(hist[j][k]) =>
                /\ k = Len(hist[j])
                /\ tpc[j] \in {"send", "done"}
                /\ ret[j] = Ok(hist[j][k])

\* C7 amended: the scenario, and in general the outcome of a job is the first
\* result string returned to a GET of the result poll (the answer to the
\* liveness poll's GET of the same URL is dropped) and no GET follows it.
C7_FirstResultOfResultPoll ==
    \A j \in DOMAIN tpc :
        /\ NullNullSuccess(j)
        /\ LET R == ResultAnswers(j)
           IN  \A k \in 1..Len(R) :
                IsResultString(R[k]) =>
                    /\ k = Len(R)
                    /\ tpc[j] \in {"send", "done"}
                    /\ ret[j] = Ok(R[k])
        /\ (tpc[j] \in {"send", "done"} /\ ret[j].ok) =>
               /\ Len(ResultAnswers(j)) > 0
               /\ ret[j] = Ok(hist[j][Len(hist[j])])
               /\ IsResultString(hist[j][Len(hist[j])])

\* C7 witness: null, null, SUCCESS with 3 attempts or more; the job ended
\* with SUCCESS after 3 GETs of the URL.
C7_Witness ==
    \E j \in DOMAIN tpc :
        /\ jobs[j].poll_build_result_counts >= 3
        /\ hist[j] = <<NULL, NULL, "SUCCESS">>
        /\ tpc[j] = "done"
        /\ ret[j] = Ok("SUCCESS")
        /\ gets[j].live = 1 /\ gets[j].result = 2

\* job line k does not resolve: its instance is not configured, or a
\* setting is written neither for the job nor globally
JobLineFails(L, k) ==
    LET i == InScope(L, k)
    IN  \/ i \notin InstanceNames
        \/ \E f \in Fields : TwoLayers(i, L[k], f) = None

\* C8: if some line of the job list does not resolve, no job is ever
\* started and no request is issued, for the lines before it either, and
\* the process ends with a non-zero exit code.
C8_FailedResolutionStartsNothing ==
    LET L == FileLines
    IN  (\E k \in JobLineIdx(L) : JobLineFails(L, k)) =>
            /\ tpc = <<>> /\ posts = <<>> /\ gets = <<>> /\ chan = <<>>
            /\ pc \in {"start", "exit"}
            /\ pc = "exit" => exitCode = 1

\* C8 witness: a line that resolves is followed by one that does not, and
\* the run has ended with exit code 1 on the resolution error.
C8_Witness ==
    /\ pc = "exit"
    /\ exitCode = 1
    /\ errmsg # E_BUILDER
    /\ LET L == FileLines
       IN  \E k1, k2 \in JobLineIdx(L) :
            k1 < k2 /\ ~JobLineFails(L, k1) /\ JobLineFails(L, k2)

MissingMessages ==
    {"Missing job or global build configuration",
     "Missing job or global poll_build_result_interval_second configuration",
     "Missing job or global poll_build_result_counts configuration"}

C10_ScanOrderAndScope ==
    LET L == FileLines
        J == JobLineIdx(L)
    IN  /\ pc = "recv" =>
            /\ N = Cardinality(J)
            /\ \A k \in 1..N :
                /\ jobs[k].name = L[NthJobLine(J, k)]
                /\ jobs[k].instance_name = InScope(L, NthJobLine(J, k))
        /\ (pc = "exit" /\ errmsg # E_BUILDER) =>
            \E k \in J : JobLineFails(L, k)

\* C10 witness: build-a, [staging], build-b resolved to build-a under the
\* first instance and build-b under staging.
C10_Witness ==
    /\ pc = "recv"
    /\ content = <<"a", NL, "[", "s", "]", NL, "b", NL>>
    /\ toml.instances[1].name = inst_d
    /\ N = 2
    /\ jobs[1].name = job_a /\ jobs[1].instance_name = inst_d
    /\ jobs[2].name = job_b /\ jobs[2].instance_name = inst_s

\* the process has ended: main returned, exited or panicked
Ended == pc \in {"done", "exit", "panic"}
\* start-up failed: no client could be built or the job list did not resolve
StartupFailed == errmsg = E_BUILDER \/ ~get_all_jobs.ok

\* C11: when the clients were built and the job list resolved, the process
\* ends with exit code 0 whatever the jobs' outcomes; the exit code is
\* non-zero only when start-up failed.
C11_ExitZeroAfterStartup ==
    Ended => (exitCode # 0 <=> StartupFailed)

\* the answers the liveness poll of job j got
LiveAnswers(j) == SubSeq(hist[j], 1, gets[j].live)
\* job j failed inside its queued-item poll, inside its liveness poll
FailedInQueue(j) == Failed(j) /\ gets[j].queue >= 1 /\ gets[j].live = 0
FailedInLive(j) ==
    /\ Failed(j)
    /\ gets[j].live >= 1
    /\ gets[j].result = 0
    /\ ret[j].e # E_TIMEOUT
\* one get_job_status loop of job j: A its answers so far, polling whether
\* the loop is still running, failed whether the task failed inside it
StatusPoll(j, poll, A, polling, failed) ==
    LET n == Len(A)
        allBad == n >= 1 /\ \A k \in 1..n : A[k] = BADJSON
        timedOut == failed /\ ret[j].e = E_FIELD
    IN  /\ n <= 30
        /\ gets[j][poll] = n
        /\ sleeps[j][poll] = n
        /\ slept[j][poll] = 3 * n
        \* an answer that decodes (or no answer) is the last of the loop
        /\ \A k \in 1..n : A[k] # BADJSON => k = n
        /\ (n >= 1 /\ A[n] \notin {BADJSON, TRANSPORT}) => (~polling /\ ~failed)
        \* answers that never decode: the loop goes on to the cap
        /\ allBad => (polling \/ (timedOut /\ n = 30))
        /\ (allBad /\ n < 30) => polling
        /\ timedOut => (allBad /\ n = 30)

\* C12: each get_job_status loop issues at most 30 GETs, each after one
\* sleep of 3 seconds; the first answer that decodes ends it with no further
\* GET; against answers that never decode it fails with the field timeout
\* after exactly 30 GETs, 30 sleeps and 90 seconds, never earlier, and
\* there is no 31st GET.
C12_StatusPollCap ==
    \A j \in DOMAIN tpc :
        /\ StatusPoll(j, "queue", qhist[j], tpc[j] = "queue", FailedInQueue(j))
        /\ StatusPoll(j, "live", LiveAnswers(j), tpc[j] = "live", FailedInLive(j))

\* C12 witness: the queued-item poll decoded its second answer and the
\* liveness poll then timed out on its 30th undecodable answer.
C12_Witness ==
    \E j \in DOMAIN tpc :
        /\ qhist[j] = <<BADJSON, PAGE>>
        /\ FailedInLive(j) /\ ret[j].e = E_FIELD
        /\ gets[j].live = 30
        /\ sleeps[j].live = 30
        /\ slept[j].live = 90

(***************************************************************************)
(* The renderer on its own: a status table of one to three jobs that is    *)
(* drawn again and again, with new outcomes or with the values it holds    *)
(***************************************************************************)
\* the outcome strings exec hands to p.print in its match arms
PrintValues == {"SUCCESS", "FAILURE", E_GET}
\* job lists of the tables; print reads the names only
PrintJobs ==
    {<<[name |-> <<"a">>]>>,
     <<[name |-> <<"a">>], [name |-> <<"b">>]>>,
     <<[name |-> <<"a">>], [name |-> <<"b">>], [name |-> <<"a">>]>>}
\* what the terminal shows when the program starts
PrintTerms ==
    {term_start(<<>>), term_start(<<"$ jenkins-build">>),
     term_start(<<"$ ls", "jobs.txt", "$ jenkins-build">>)}

\* PrintData::new(&jobs) in exec, nothing drawn yet
InitPrint ==
    /\ toml = TomlDefault
    /\ content = <<>>
    /\ server = ServerTiny
    /\ pc = "print"
    /\ exitCode = -1
    /\ errmsg = ""
    /\ jobs \in PrintJobs
    /\ tasks = <<>>
    /\ chan = <<>>
    /\ tpc = <<>>
    /\ ti = <<>>
    /\ posts = <<>>
    /\ gets = <<>>
    /\ sleeps = <<>>
    /\ slept = <<>>
    /\ ret = <<>>
    /\ hist = <<>>
    /\ qhist = <<>>
    /\ cur = NoEvent
    /\ p = PrintData_new(jobs)
    /\ out = [up |-> 0, lines |-> <<>>]
    /\ term \in PrintTerms
    /\ processed = <<>>

PrintFrame ==
    UNCHANGED <<toml, content, server, pc, exitCode, errmsg, jobs, tasks, chan,
                tpc, ti, posts, gets, sleeps, slept, ret, hist, qhist, cur,
                processed>>

\* p.print(idx, result)
Draw(idx, result) ==
    /\ p.counts < MaxDraws
    /\ PrintFrame
    /\ LET d == PrintData_print(p, jobs, idx, result)
       IN  /\ ~d.panic
           /\ p' = d.p
           /\ out' = d.out
           /\ term' = term_write(term, d.out)

\* p.print(idx, ..) with the value slot idx holds already
Redraw(idx) == Draw(idx, p.v[idx + 1])

NextPrint ==
    \/ \E idx \in 0..(Len(jobs) - 1) : \E result \in PrintValues : Draw(idx, result)
    \/ \E idx \in 0..(Len(jobs) - 1) : Redraw(idx)

SpecPrint == InitPrint /\ [][NextPrint]_vars

\* C13: a draw that leaves the slot array as it was prints exactly the lines
\* of the draw before it, however many such draws follow one another.
C13_RedrawIdempotent ==
    [][(p.counts > 0 /\ p'.counts = p.counts + 1 /\ p'.v = p.v) =>
            out'.lines = out.lines]_vars

\* C13 witness: a table of three slots drawn MaxDraws times, every draw with
\* the value the slot held (here only Redraw writes the empty value).
C13_Witness ==
    /\ p.counts = MaxDraws
    /\ Len(p.v) = 3
    /\ \A k \in 1..3 : p.v[k] = ""
    /\ Len(out.lines) = 3

\* C16: the first draw moves the cursor up 0 rows, every later draw N rows,
\* and each draw prints N lines: after a draw the cursor is on the row below
\* the block, the block is on the N rows that follow the rows shown at
\* start, and those rows above are as they were.
C16_RepaintInPlace ==
    LET n == Len(p.v)
        top == Len(term.above) + 1
    IN  IF p.counts = 0 THEN term.rows = term.above /\ term.row = top
        ELSE /\ out.up = (IF p.counts = 1 THEN 0 ELSE n)
             /\ Len(out.lines) = n
             /\ term.row = top + n
             /\ Len(term.rows) = top + n - 1
             /\ SubSeq(term.rows, top, top + n - 1) = out.lines
             /\ SubSeq(term.rows, 1, top - 1) = term.above

\* C16 witness: a block of two slots below three rows of earlier output was
\* drawn three times, the last time with a changed slot.
C16_Witness ==
    /\ p.counts = 3
    /\ Len(p.v) = 2
    /\ Len(term.above) = 3
    /\ out.up = 2
    /\ p.v[2] = "FAILURE"
    /\ term.rows[5].status = "FAILURE"

\* the position of a task as a number, in the order of the task's code
Phase(t) ==
    CASE t = "trigger" -> 1 [] t = "queue" -> 2 [] t = "live" -> 3
      [] t = "result" -> 4 [] t = "send" -> 5 [] t = "done" -> 6
\* the task of job j holds its outcome
HasOutcome(j) == ret[j] # NoRet
\* the failures of job_build
TriggerErrors == {E_POST, E_LOCATION, E_TOSTR, E_PANIC}
\* the steps of job j succeeded up to and including the named one
TriggerOk(j) == posts[j] = 1 /\ (HasOutcome(j) /\ ~ret[j].ok => ret[j].e \notin TriggerErrors)
QueueOk(j) == TriggerOk(j) /\ qhist[j] # <<>> /\ qhist[j][Len(qhist[j])] = PAGE
LiveOk(j) == QueueOk(j) /\ EnteredResultPoll(j)

\* the order of the steps of job j, as a predicate on one state
StepsInOrder(j) ==
    /\ posts[j] <= 1
    /\ gets[j].queue >= 1 => TriggerOk(j)
    /\ gets[j].live >= 1 => QueueOk(j)
    /\ gets[j].result >= 1 => LiveOk(j)
    /\ tpc[j] = "trigger" => Requests(j) = 0
    /\ tpc[j] = "queue" => (TriggerOk(j) /\ gets[j].live = 0)
    /\ tpc[j] = "live" => (QueueOk(j) /\ gets[j].result = 0)
    /\ tpc[j] = "result" => LiveOk(j)
    /\ tpc[j] \in {"trigger", "queue", "live", "result"} <=> ~HasOutcome(j)
    /\ tpc[j] = "send" => ret[j].ok
    /\ HasOutcome(j) =>
        IF ret[j].ok
        THEN /\ DOMAIN ret[j] = {"ok", "v"}
             /\ LiveOk(j)
             /\ gets[j].result >= 1
             /\ ret[j].v = hist[j][Len(hist[j])]
             /\ IsResultString(ret[j].v)
        ELSE "e" \in DOMAIN ret[j] /\ "v" \notin DOMAIN ret[j]

\* C14: a job takes its steps in the order trigger, queued-item poll,
\* liveness poll, result poll, each only after the one before succeeded; a
\* finished job holds either a result string or a failure description; and
\* once it holds its outcome the outcome never changes and the job issues
\* no further request.
C14_StepsInOrderThenDone ==
    /\ [](\A j \in DOMAIN tpc : StepsInOrder(j))
    /\ [][\A j \in DOMAIN tpc :
            /\ Phase(tpc'[j]) >= Phase(tpc[j])
            /\ Phase(tpc'[j]) \in {Phase(tpc[j]), Phase(tpc[j]) + 1, 6}
            /\ HasOutcome(j) =>
                /\ ret'[j] = ret[j]
                /\ Requests(j)' = Requests(j)]_vars

\* C14 witness: in an ended run one job went through all four steps to a
\* result after two GETs of the result poll, another failed in its
\* queued-item poll and made no later request.
C14_Witness ==
    /\ pc = "done"
    /\ \E j, k \in DOMAIN tpc :
        /\ tpc[j] = "done" /\ ret[j].ok
        /\ posts[j] = 1 /\ gets[j].queue >= 1 /\ gets[j].live >= 1
        /\ gets[j].result = 2
        /\ FailedInQueue(k) /\ gets[k].result = 0

\* the most jobs a scenario runs side by side
MaxJobs == 3

\* Fair scheduling: the runtime polls every task that can make progress and
\* the main future, and every network call in flight returns, so no step
\* that stays possible is postponed forever.
SpecFair ==
    /\ Init
    /\ [][Next]_vars
    /\ WF_vars(ExecStart)
    /\ \A j \in 1..MaxJobs : WF_vars(j \in DOMAIN tpc /\ TaskStep(j))
    /\ WF_vars(Recv)
    /\ WF_vars(Join)
    /\ WF_vars(RecvClosed)

\* the request budget of job j: 1 POST, 30 + 30 + c GETs
WithinBudget(j) ==
    /\ posts[j] <= 1
    /\ gets[j].queue <= 30
    /\ gets[j].live <= 30
    /\ gets[j].result <= jobs[j].poll_build_result_counts

\* C15: under fair scheduling every launched job finishes within its request
\* budget and the run ends: all jobs are finished, the channel is closed and
\* empty, the renderer loop has exited and the process has terminated.
C15_EveryJobFinishesAndRunEnds ==
    /\ [](\A j \in DOMAIN tpc : WithinBudget(j))
    /\ <>(/\ Ended
          /\ \A j \in DOMAIN tpc : tpc[j] = "done"
          /\ chan = <<>>)

\* C17: a run whose job list resolves to zero jobs launches nothing, draws
\* no status line, does not panic and ends with exit code 0.
C17_ZeroJobsEndsNormally ==
    (Ended /\ ~StartupFailed /\ Len(get_all_jobs.v) = 0) =>
        /\ pc = "done"
        /\ exitCode = 0
        /\ tpc = <<>>
        /\ out.lines = <<>>

\* the completion event of job j has been processed by the renderer
EventProcessed(j) == \E k \in 1..Len(processed) : processed[k] = j - 1
\* the number of events job j has sent so far: in the channel, taken by the
\* renderer, or processed
EventsOf(j) ==
    Cardinality({k \in 1..Len(chan) : chan[k].idx = j - 1})
    + Cardinality({k \in 1..Len(processed) : processed[k] = j - 1})
    + (IF cur.idx = j - 1 THEN 1 ELSE 0)

\* C19: in every draw the line of slot i shows the pending placeholder if
\* and only if no completion event of job i has been processed, whatever
\* result string was reported, the empty string included.
C19_PlaceholderIffUnprocessed ==
    p.counts > 0 =>
        \A j \in 1..N : out.lines[j].status = PENDING <=> ~EventProcessed(j)

\* C20: the channel never holds more than N events, a job sends at most one
\* event, and a job that is about to send finds room in the channel: its
\* send is possible at once, whatever the other jobs and the renderer did.
C20_SendNeverBlocks ==
    /\ Len(chan) <= N
    /\ \A j \in DOMAIN tpc :
        /\ EventsOf(j) <= 1
        /\ tpc[j] = "send" => EventsOf(j) = 0
        /\ (tpc[j] = "send" /\ Running) => Len(chan) < capacity(jobs)

\* C20 witness: the events of all three jobs are in the channel at once,
\* none taken by the renderer yet.
C20_Witness ==
    /\ N = 3
    /\ Len(chan) = 3
    /\ processed = <<>>
    /\ \A j \in 1..3 : tpc[j] = "done" /\ EventsOf(j) = 1

\* every answer job j got, in the order of its GETs
AllAnswers(j) == qhist[j] \o hist[j]
\* answer k of AllAnswers(j) belongs to a get_job_status loop
InStatusPoll(j, k) == k <= gets[j].queue + gets[j].live
\* answer k is the last one of the loop it belongs to
LastOfPoll(j, k) ==
    k \in {gets[j].queue, gets[j].queue + gets[j].live, Len(AllAnswers(j))}
\* job j is inside the loop that answer k belongs to
StillPolling(j, k) ==
    IF k <= gets[j].queue THEN tpc[j] = "queue"
    ELSE IF InStatusPoll(j, k) THEN tpc[j] = "live"
    ELSE tpc[j] = "result"

\* C18: an undecodable answer inside get_job_status is retried until the
\* cap; a GET without answer in any poll, and an undecodable answer inside
\* get_job_result, end the job at once with that failure: it is the job's
\* last answer, and the job has slept and sent a GET once per answer.
C18_RetryPolicy ==
    \A j \in DOMAIN tpc :
        LET A == AllAnswers(j)
            n == Len(A)
            total(f) == f[j].queue + f[j].live + f[j].result
        IN  /\ total(gets) = n
            /\ total(sleeps) = n
            /\ \A k \in 1..n :
                /\ A[k] = TRANSPORT =>
                    (k = n /\ Failed(j) /\ ret[j].e = E_GET)
                /\ (A[k] = BADJSON /\ ~InStatusPoll(j, k)) =>
                    (k = n /\ Failed(j) /\ ret[j].e = E_JSON)
                /\ (A[k] = BADJSON /\ InStatusPoll(j, k) /\ LastOfPoll(j, k)) =>
                    \/ StillPolling(j, k)
                    \/ Failed(j) /\ ret[j].e = E_FIELD /\ k = n

\* C18 witness: both status polls retried after an undecodable answer and
\* went on; the result poll then ended on its first undecodable answer.
C18_Witness ==
    \E j \in DOMAIN tpc :
        /\ qhist[j] = <<BADJSON, PAGE>>
        /\ hist[j] = <<BADJSON, NULL, BADJSON>>
        /\ gets[j].live = 2
        /\ Failed(j) /\ ret[j].e = E_JSON
        /\ sleeps[j].result = 1

====
